---- MODULE Spec2Model ----
(***************************************************************************)
(* Model of the image crawler worker:                                      *)
(*   - worker/message.py : AsyncProducer (enqueue_message, listen)         *)
(*   - worker/image.py   : process_image under a shared semaphore          *)
(*                                                                         *)
(* asyncio is a cooperative scheduler: a coroutine is only interleaved     *)
(* with other work at an `await`.  Every action below is the code between  *)
(* two suspension points (or a finer step of it; the finer steps of        *)
(* listen() are not interleaved with enqueue_message, which is only        *)
(* enabled while listen() is suspended or not running).                    *)
(***************************************************************************)
EXTENDS Integers, Sequences, FiniteSets, TLC

\* ------------------------------------------------------------------ bounds
\* Number of enqueue_message calls made by the callers of one publisher.
MaxEnqueue == 3

\* Number of times the client's produce raises something other than BufferError.
MaxCrash == 1

\* Number of process_image invocations sharing the semaphore.
NumTasks == 2

\* Number of calls of the notify_* functions of message.py.
MaxCalls == 2

\* `while produce_attempts < 10` (message.py:53)
MaxAttempts == 10

VARIABLES
    messages,          \* AsyncProducer._messages: the list object the attribute names
    lpc,               \* position of the listen() coroutine
    queue_size,        \* local of listen(): len(self._messages) read at the loop top
    it,                \* the for-loop's list iterator: number of elements consumed
    msg,               \* the for-loop variable
    produce_attempts,  \* local of listen()
    cycle,             \* history: number of flush cycles begun
    snapshot,          \* history: content of the queue when the current cycle began
    enqueued,          \* history: every enqueue_message call
    produced,          \* history: every call of producer.produce and its outcome
    slept,             \* history: an interval sleep of the running loop has ended
    payload,           \* history: the dict each enqueue_message call was given
    calls,             \* history: every call of a notify_* function of message.py
    sem,               \* the semaphore's counter: permits not handed out
    tpc,               \* position of each process_image invocation
    sink,              \* what each invocation got as metadata_producer
    resp,              \* what session.get gave each invocation
    image,             \* what Image.open made of the fetched bytes
    code,              \* the error code an invocation is recording
    errors,            \* stats: the codes record_error got, per invocation
    successes,         \* stats: the record_success calls, per invocation
    steps,             \* history: the work steps each invocation performed
    notified,          \* the notify_* calls made on each invocation's sink
    persisted,         \* the calls of the persister made by each invocation
    raised             \* the exception each invocation ended with

pubVars == <<messages, lpc, queue_size, it, msg, produce_attempts,
             cycle, snapshot, enqueued, produced>>

pubHist == <<slept, payload, calls>>

imgVars == <<sem, tpc, sink, resp, image, code, errors, successes, steps, notified,
             persisted, raised>>

vars == <<messages, lpc, queue_size, it, msg, produce_attempts,
          cycle, snapshot, enqueued, produced, slept, payload, calls,
          sem, tpc, sink, resp, image, code, errors, successes, steps, notified,
          persisted, raised>>

\* ------------------------------------------------------ enqueue_message
\* An enqueue_message call is [identifier, serializable, dict]: `dict` is the
\* dict the caller passes, `serializable` says whether json.dumps accepts it
\* (a value such as bytes makes it raise TypeError), and `identifier` numbers
\* the calls, so that each serialized entry can be told from the others.

\* json.dumps + bytes(..., 'utf-8') (message.py:35-36): the serialized form of a
\* dict, or TypeError raised for a payload json cannot encode.
JsonDumps(m) ==
    IF m.serializable
      THEN [raised |-> "none", utf8 |-> m.identifier]
      ELSE [raised |-> "TypeError", utf8 |-> 0]

\* The coroutine listen() is suspended at an await (or not running), so other
\* coroutines, the callers of enqueue_message, can run.
ListenSuspended == lpc \in {"idle", "sleep", "backoff", "crashed"}

\* A flush cycle is in progress: between the loop top having found a non-empty
\* queue (message.py:48) and the clear (message.py:67).
InFlush == lpc \in {"for", "while", "produce", "backoff", "clear"}

\* message.py:37: the exceptions of the serialization that enqueue_message
\* catches; the event is then logged and dropped, and the call returns.
CaughtAtDumpsNone == {}
CaughtAtDumps == {"TypeError"}

\* enqueue_message (message.py:33-42)
EnqueueMessage(m) ==
    /\ ListenSuspended
    /\ Len(enqueued) < MaxEnqueue
    /\ LET s == JsonDumps(m) IN
         /\ messages' = IF s.raised = "TypeError"
                           THEN messages
                           ELSE Append(messages, [utf8 |-> s.utf8])
         /\ enqueued' = Append(enqueued,
                [id |-> m.identifier, appended |-> s.raised = "none",
                 serializable |-> m.serializable,
                 raised |-> IF s.raised \in CaughtAtDumps
                              THEN "none" ELSE s.raised,
                 cycle |-> cycle, inflush |-> InFlush, at |-> lpc])
    /\ payload' = Append(payload, m.dict)
    /\ UNCHANGED <<lpc, queue_size, it, msg, produce_attempts, cycle,
                   snapshot, produced, slept>>
    /\ UNCHANGED imgVars

\* A call of enqueue_message by any caller.
Enqueue ==
    /\ \E ser \in BOOLEAN :
          EnqueueMessage([identifier |-> Len(enqueued) + 1, serializable |-> ser,
                          dict |-> [identifier |-> Len(enqueued) + 1]])
    /\ UNCHANGED calls

\* ---------------------------------------------------------------- listen
\* asyncio.create_task(producer.listen()): the coroutine starts at the loop
\* top, `while True:` (message.py:46), whose first statement reads the queue.
StartAtSleep == "sleep"
StartAt == "top"

ListenStart ==
    /\ lpc = "idle"
    /\ lpc' = StartAt
    /\ slept' = FALSE
    /\ UNCHANGED <<messages, queue_size, it, msg, produce_attempts, cycle,
                   snapshot, enqueued, produced, payload, calls>>
    /\ UNCHANGED imgVars

\* message.py:47-51: read the queue length; a non-empty queue starts a flush
\* cycle, whose for loop takes an iterator over the list object.
ListenTop ==
    /\ lpc = "top"
    /\ queue_size' = Len(messages)
    /\ IF Len(messages) > 0
         THEN /\ lpc' = "for"
              /\ it' = 0
              /\ cycle' = cycle + 1
              /\ snapshot' = messages
         ELSE /\ lpc' = "sleep"
              /\ UNCHANGED <<it, cycle, snapshot>>
    /\ UNCHANGED <<messages, msg, produce_attempts, enqueued, produced>>
    /\ UNCHANGED <<imgVars, pubHist>>

\* The list the for loop of message.py:51 iterates: the list object that
\* self._messages names, so appends made while the loop is suspended are seen.
IterTargetCopy == snapshot
IterTarget == messages

\* message.py:51-52: next element of the iterator, or the end of the loop.
ListenFor ==
    /\ lpc = "for"
    /\ IF it < Len(IterTarget)
         THEN /\ msg' = IterTarget[it + 1]
              /\ it' = it + 1
              /\ produce_attempts' = 0
              /\ lpc' = "while"
         ELSE /\ lpc' = "clear"
              /\ UNCHANGED <<msg, it, produce_attempts>>
    /\ UNCHANGED <<messages, queue_size, cycle, snapshot, enqueued, produced>>
    /\ UNCHANGED <<imgVars, pubHist>>

\* message.py:53: the while test.
ListenWhile ==
    /\ lpc = "while"
    /\ lpc' = IF produce_attempts < MaxAttempts THEN "produce" ELSE "for"
    /\ UNCHANGED <<messages, queue_size, it, msg, produce_attempts, cycle,
                   snapshot, enqueued, produced>>
    /\ UNCHANGED <<imgVars, pubHist>>

\* What the client's produce can do with an event: accept it, raise
\* BufferError (local buffer exhausted), or raise anything else.
Crashes == Cardinality({i \in 1..Len(produced) : produced[i].result = "Error"})
ProduceOutcomes ==
    {"ok", "BufferError"} \cup (IF Crashes < MaxCrash THEN {"Error"} ELSE {})

\* message.py:65: the statement after the try/except is `break`, on the path
\* where produce returned and on the path where BufferError was handled.
AfterAccepted == "for"
AfterBackoffRetry == "while"
AfterBackoffAbort == "clear"
AfterBackoff == "for"

\* message.py:54-56: only BufferError is caught; any other exception of
\* produce leaves the loop and ends the coroutine.
AfterErrorSwallowed == "for"
AfterError == "crashed"

\* message.py:54-64: one call of producer.produce.
ListenProduce ==
    /\ lpc = "produce"
    /\ \E r \in ProduceOutcomes :
        /\ produced' = Append(produced,
                [msg |-> msg, result |-> r, cycle |-> cycle,
                 attempt |-> produce_attempts + 1])
        /\ CASE r = "ok" ->
                  /\ lpc' = AfterAccepted
                  /\ UNCHANGED produce_attempts
             [] r = "BufferError" ->
                  /\ produce_attempts' = produce_attempts + 1
                  /\ lpc' = "backoff"
             [] r = "Error" ->
                  /\ lpc' = AfterError
                  /\ UNCHANGED produce_attempts
    /\ UNCHANGED <<messages, queue_size, it, msg, cycle, snapshot, enqueued>>
    /\ UNCHANGED <<imgVars, pubHist>>

\* message.py:64-65: asyncio.sleep(5) returns.
ListenBackoffWake ==
    /\ lpc = "backoff"
    /\ lpc' = AfterBackoff
    /\ UNCHANGED <<messages, queue_size, it, msg, produce_attempts, cycle,
                   snapshot, enqueued, produced>>
    /\ UNCHANGED <<imgVars, pubHist>>

\* message.py:66-69: the queue is rebound to a new empty list and the loop
\* sleeps for the flush interval (the rate of line 66 is only logged).
ClearedKeep == messages
Cleared == <<>>

ListenClear ==
    /\ lpc = "clear"
    /\ messages' = Cleared
    /\ lpc' = "sleep"
    /\ UNCHANGED <<queue_size, it, msg, produce_attempts, cycle, snapshot,
                   enqueued, produced>>
    /\ UNCHANGED <<imgVars, pubHist>>

\* message.py:69, 46: asyncio.sleep(self.frequency) returns.
ListenWake ==
    /\ lpc = "sleep"
    /\ lpc' = "top"
    /\ slept' = TRUE
    /\ UNCHANGED <<messages, queue_size, it, msg, produce_attempts, cycle,
                   snapshot, enqueued, produced, payload, calls>>
    /\ UNCHANGED imgVars

\* The task died with the exception produce raised; the owner of the
\* publisher starts listen() again on the same object.
ListenRestart ==
    /\ lpc = "crashed"
    /\ lpc' = StartAt
    /\ slept' = FALSE
    /\ UNCHANGED <<messages, queue_size, it, msg, produce_attempts, cycle,
                   snapshot, enqueued, produced, payload, calls>>
    /\ UNCHANGED imgVars


\* --------------------------------------------------------- process_image
Tasks == 1..NumTasks

\* The semaphore the invocations share (asyncio.BoundedSemaphore(P)).
Permits == NumTasks - 1

\* What the caller passes as metadata_producer: nothing (the default None), an
\* AsyncProducer, or an object offering notify_image_quality_update and
\* notify_exif_update, the methods image.py:82 and image.py:91 call.
SinkKinds == {"None", "AsyncProducer", "Notifier"}

\* HTTP statuses of a response, on both sides of `status >= 400` (image.py:39).
Statuses == {200, 403, 404}

\* What `await session.get(url, source)` (image.py:32) can give: a response, a
\* falsy value (no rate token), ServerDisconnectedError, or another exception
\* of the client (connection refused, timeout, ...).
Response(status) == [kind |-> "response", status |-> status]
NoResponse(kind) == [kind |-> kind, status |-> 0]
FetchOutcomes ==
    {Response(s) : s \in Statuses}
      \cup {NoResponse(k) : k \in {"NoToken", "ServerDisconnectedError", "ClientError"}}

\* The `code` argument of stats.record_error: a name, or the numeric status.
NamedCode(name) == [name |-> name, status |-> 0]
StatusCode(status) == [name |-> "status", status |-> status]

\* The work steps of the claims: an invocation has started work once it holds
\* a permit and has not yet left the `async with` block.
InFlight(t) ==
    tpc[t] \in {"get", "record_error", "read", "decode", "thumbnail",
                "persist", "record_success"}

Exited(t) == tpc[t] \in {"done", "raised"}

\* `async with semaphore` (image.py:29), entry: take a permit, or wait for one.
\* The caller's arguments are drawn here.
Call(t) ==
    /\ tpc[t] = "new"
    /\ \E k \in SinkKinds : sink' = [sink EXCEPT ![t] = k]
    /\ IF sem > 0
         THEN /\ sem' = sem - 1
              /\ tpc' = [tpc EXCEPT ![t] = "get"]
         ELSE /\ tpc' = [tpc EXCEPT ![t] = "acquire"]
              /\ UNCHANGED sem
    /\ UNCHANGED <<resp, image, code, errors, successes, steps, notified, raised>>
    /\ UNCHANGED <<pubVars, pubHist, persisted>>

\* A waiting invocation is woken once a permit is free.
Acquire(t) ==
    /\ tpc[t] = "acquire"
    /\ sem > 0
    /\ sem' = sem - 1
    /\ tpc' = [tpc EXCEPT ![t] = "get"]
    /\ UNCHANGED <<sink, resp, image, code, errors, successes, steps, notified,
                   raised>>
    /\ UNCHANGED <<pubVars, pubHist, persisted>>

\* `async with semaphore` (image.py:29), exit: __aexit__ releases the permit,
\* on a return and on an exception alike.
ReleaseLeak(s) == s
Release(s) == s + 1

\* The exceptions `except` at image.py:33 catches.
CaughtAtGetNone == {}
CaughtAtGet == {"ServerDisconnectedError"}

\* image.py:39: the statuses that end the task with an error stat.
IsHttpErrorOnly404(status) == status = 404
IsHttpError(status) == status >= 400

\* image.py:31-41: session.get returns or raises; the response is classified.
GetReturns(t) ==
    /\ tpc[t] = "get"
    /\ \E o \in FetchOutcomes :
        /\ resp' = [resp EXCEPT ![t] = o]
        /\ steps' = [steps EXCEPT ![t] = Append(@, "fetch")]
        /\ CASE o.kind \in CaughtAtGet ->
                  /\ tpc' = [tpc EXCEPT ![t] = "record_error"]
                  /\ code' = [code EXCEPT ![t] = NamedCode("ServerDisconnected")]
                  /\ UNCHANGED <<sem, raised>>
             [] o.kind \in {"ServerDisconnectedError", "ClientError"} \ CaughtAtGet ->
                  /\ tpc' = [tpc EXCEPT ![t] = "raised"]
                  /\ raised' = [raised EXCEPT ![t] = o.kind]
                  /\ sem' = Release(sem)
                  /\ UNCHANGED code
             [] o.kind = "NoToken" ->
                  /\ tpc' = [tpc EXCEPT ![t] = "record_error"]
                  /\ code' = [code EXCEPT ![t] = NamedCode("NoRateToken")]
                  /\ UNCHANGED <<sem, raised>>
             [] o.kind = "response" /\ IsHttpError(o.status) ->
                  /\ tpc' = [tpc EXCEPT ![t] = "record_error"]
                  /\ code' = [code EXCEPT ![t] = StatusCode(o.status)]
                  /\ UNCHANGED <<sem, raised>>
             [] o.kind = "response" /\ ~IsHttpError(o.status) ->
                  /\ tpc' = [tpc EXCEPT ![t] = "read"]
                  /\ UNCHANGED <<sem, code, raised>>
    /\ UNCHANGED <<sink, image, errors, successes, notified>>
    /\ UNCHANGED <<pubVars, pubHist, persisted>>

\* image.py:34-35, 37-38, 40-41, 49-53: `await stats.record_error(...)`
\* returns, then `return` leaves the `async with` block.
RecordErrorReturns(t) ==
    /\ tpc[t] = "record_error"
    /\ errors' = [errors EXCEPT ![t] = Append(@, code[t])]
    /\ tpc' = [tpc EXCEPT ![t] = "done"]
    /\ sem' = Release(sem)
    /\ UNCHANGED <<sink, resp, image, code, successes, steps, notified, raised>>
    /\ UNCHANGED <<pubVars, pubHist, persisted>>

\* image.py:42: `await img_resp.read()` returns the body, or raises (the
\* connection broke while the body was read); no `try` encloses it.
ReadReturns(t) ==
    /\ tpc[t] = "read"
    /\ steps' = [steps EXCEPT ![t] = Append(@, "read")]
    /\ \E ok \in BOOLEAN :
        IF ok
          THEN /\ tpc' = [tpc EXCEPT ![t] = "decode"]
               /\ UNCHANGED <<sem, raised>>
          ELSE /\ tpc' = [tpc EXCEPT ![t] = "raised"]
               /\ raised' = [raised EXCEPT ![t] = "ClientPayloadError"]
               /\ sem' = Release(sem)
    /\ UNCHANGED <<sink, resp, image, code, errors, successes, notified>>
    /\ UNCHANGED <<pubVars, pubHist, persisted>>

\* image.py:73-84 and 87-91: the calls notify_quality and notify_exif make on
\* the sink.  An AsyncProducer has no notify_image_quality_update method, so
\* notify_quality raises AttributeError at image.py:82.
NotifyCalls(kind, hasExif) ==
    IF kind = "Notifier"
      THEN IF hasExif
             THEN <<"notify_image_quality_update", "notify_exif_update">>
             ELSE <<"notify_image_quality_update">>
      ELSE <<>>

\* image.py:45: `if metadata_producer:`
SinkConfigured(kind) == kind # "None"

\* image.py:43-53: Image.open on the worker pool, then (no await in between)
\* the metadata notifications, inside the same try.
NotifyBeforeDecodeCheck(kind, corrupt) == SinkConfigured(kind)
NotifyAfterDecode(kind, corrupt) == SinkConfigured(kind) /\ ~corrupt

\* image.py:46-47: the notify functions process_image calls; notify_exif is
\* reached only when notify_quality returned.
NotifySteps(kind) ==
    IF kind = "AsyncProducer"
      THEN <<"notify_quality">>
      ELSE <<"notify_quality", "notify_exif">>

\* image.py:54: the step that follows the try block.
AfterDecodeSkipThumbnail == "persist"
AfterDecode == "thumbnail"

DecodeReturns(t) ==
    /\ tpc[t] = "decode"
    /\ \E corrupt \in BOOLEAN, hasExif \in BOOLEAN :
        LET notify == NotifyAfterDecode(sink[t], corrupt) IN
        /\ steps' = [steps EXCEPT ![t] =
                IF notify THEN Append(@, "decode") \o NotifySteps(sink[t])
                          ELSE Append(@, "decode")]
        /\ image' = [image EXCEPT ![t] =
                IF corrupt THEN "corrupt" ELSE IF hasExif THEN "exif" ELSE "plain"]
        /\ notified' = [notified EXCEPT ![t] =
                IF notify THEN NotifyCalls(sink[t], hasExif) ELSE @]
        /\ CASE notify /\ sink[t] = "AsyncProducer" ->
                  /\ tpc' = [tpc EXCEPT ![t] = "raised"]
                  /\ raised' = [raised EXCEPT ![t] = "AttributeError"]
                  /\ sem' = Release(sem)
                  /\ UNCHANGED code
             [] ~(notify /\ sink[t] = "AsyncProducer") /\ corrupt ->
                  /\ tpc' = [tpc EXCEPT ![t] = "record_error"]
                  /\ code' = [code EXCEPT ![t] = NamedCode("UnidentifiedImageError")]
                  /\ UNCHANGED <<sem, raised>>
             [] ~(notify /\ sink[t] = "AsyncProducer") /\ ~corrupt ->
                  /\ tpc' = [tpc EXCEPT ![t] = AfterDecode]
                  /\ UNCHANGED <<sem, code, raised>>
    /\ UNCHANGED <<sink, resp, errors, successes>>
    /\ UNCHANGED <<pubVars, pubHist, persisted>>

\* image.py:57: the step that follows the thumbnail.
AfterThumbnailSkipPersist == "record_success"
AfterThumbnail == "persist"

\* image.py:54-56: thumbnail_image on the worker pool returns.
ThumbnailReturns(t) ==
    /\ tpc[t] = "thumbnail"
    /\ steps' = [steps EXCEPT ![t] = Append(@, "thumbnail")]
    /\ tpc' = [tpc EXCEPT ![t] = AfterThumbnail]
    /\ UNCHANGED <<sem, sink, resp, image, code, errors, successes, notified,
                   raised>>
    /\ UNCHANGED <<pubVars, pubHist, persisted>>

\* The `identifier` argument of invocation t (image.py:13): invocations are
\* numbered by their identifiers.
Identifier(t) == t

\* image.py:58: `partial(persister, img=thumb, identifier=identifier)`.
PersistKey(t) == Identifier(t)

\* image.py:57-59: no `try` encloses the persister call, so what it raises
\* leaves process_image.
OnPersisterErrorSwallowed == "record_success"
OnPersisterError == "raised"

\* image.py:57-59: the persister, on the worker pool, returns or raises.
PersistReturns(t) ==
    /\ tpc[t] = "persist"
    /\ steps' = [steps EXCEPT ![t] = Append(@, "persist")]
    /\ \E ok \in BOOLEAN :
        LET next == IF ok THEN "record_success" ELSE OnPersisterError IN
        /\ persisted' = [persisted EXCEPT ![t] =
                Append(@, [identifier |-> PersistKey(t), returned |-> ok])]
        /\ tpc' = [tpc EXCEPT ![t] = next]
        /\ IF next = "raised"
             THEN /\ raised' = [raised EXCEPT ![t] = "PersisterError"]
                  /\ sem' = Release(sem)
             ELSE UNCHANGED <<sem, raised>>
    /\ UNCHANGED <<sink, resp, image, code, errors, successes, notified>>
    /\ UNCHANGED <<pubVars, pubHist>>

\* image.py:60: `await stats.record_success(source)` returns; the block ends.
RecordSuccessReturns(t) ==
    /\ tpc[t] = "record_success"
    /\ successes' = [successes EXCEPT ![t] = @ + 1]
    /\ tpc' = [tpc EXCEPT ![t] = "done"]
    /\ sem' = Release(sem)
    /\ UNCHANGED <<sink, resp, image, code, errors, steps, notified, raised>>
    /\ UNCHANGED <<pubVars, pubHist, persisted>>


\* ------------------------------------------- notify_* functions, message.py
\* The decoded images handed to the functions: pixel width and height (square
\* and non-square), and the EXIF data: "absent" (no 'exif' in img.info),
\* "empty" (no tag), "text" (a tag with a string value) or "bytes" (a tag with
\* a bytes value, which json.dumps rejects with TypeError).
ImageSizes ==
    {[width |-> 1, height |-> 1], [width |-> 2, height |-> 1],
     [width |-> 1, height |-> 2]}
ExifKinds == {"absent", "empty", "text", "bytes"}

\* PIL's Image.size is the pair (width, height).
ImgSize(img) == <<img.width, img.height>>

\* message.py:83: `height, width = img.size`, a tuple unpacking: the first
\* element of the pair goes to `height`, the second to `width`.
UnpackedHeight(size) == size[1]
UnpackedWidth(size) == size[2]

\* message.py:86-89: the compression quality wand reports, or None when wand
\* raises WandException.
ProbeOutcomes == {"quality", "WandException"}
CompressionQuality(probe) == IF probe = "quality" THEN "q" ELSE "None"

\* message.py:90-98: the dict notify_quality enqueues.
QualityUpdate(img, nbytes, identifier, probe) ==
    [height |-> UnpackedHeight(ImgSize(img)),
     width |-> UnpackedWidth(ImgSize(img)),
     identifier |-> identifier,
     filesize |-> nbytes,
     compression_quality |-> CompressionQuality(probe)]

\* Python's hex(k) for k > 0: "0x" and the lowercase hexadecimal digits, as a
\* sequence of characters.
HexDigit(d) ==
    <<"0", "1", "2", "3", "4", "5", "6", "7", "8", "9",
      "a", "b", "c", "d", "e", "f">>[d + 1]
RECURSIVE HexDigits(_)
HexDigits(k) ==
    IF k < 16 THEN <<HexDigit(k)>>
              ELSE Append(HexDigits(k \div 16), HexDigit(k % 16))
Hex(k) == <<"0", "x">> \o HexDigits(k)

\* The EXIF tag of the images that carry one (Artist).
ExifTag == 315

\* message.py:103: `{hex(k): v for k, v in img.getexif().items()}`.
ExifDict(kind) ==
    IF kind \in {"text", "bytes"}
      THEN {[key |-> Hex(ExifTag), value |-> kind]}
      ELSE {}

\* message.py:105-110: the dict notify_exif enqueues.
ExifUpdate(identifier, exif) == [identifier |-> identifier, exif |-> exif]

\* message.py:114-121: the dict notify_retry enqueues.
RetryNotice(identifier, source, url, attempts) ==
    [url |-> url, uuid |-> identifier, source |-> source, attempts |-> attempts]

\* message.py:125-130: the dict notify_404 enqueues; the timestamp is the
\* ISO-8601 text of the clock at the call.
LinkRotNoticeNoIdentifier(identifier) == [timestamp |-> "utcnow"]
LinkRotNotice(identifier) ==
    [identifier |-> identifier, timestamp |-> "utcnow"]

\* One more call of a notify_* function, with the enqueue_message call it made
\* (0 when it made none).
LogCall(fn, identifier, img, enq) ==
    calls' = Append(calls,
        [fn |-> fn, identifier |-> identifier, width |-> img.width,
         height |-> img.height, enq |-> enq])

NoImage == [width |-> 0, height |-> 0]

\* notify_quality (message.py:81-98)
NotifyQuality(identifier, img, nbytes, probe) ==
    /\ Len(calls) < MaxCalls
    /\ EnqueueMessage([identifier |-> Len(enqueued) + 1, serializable |-> TRUE,
                       dict |-> QualityUpdate(img, nbytes, identifier, probe)])
    /\ LogCall("notify_quality", identifier, img, Len(enqueued) + 1)

\* notify_exif (message.py:101-110)
NotifyExif(identifier, img, kind) ==
    /\ Len(calls) < MaxCalls
    /\ IF kind # "absent" /\ ExifDict(kind) # {}
         THEN /\ EnqueueMessage(
                    [identifier |-> Len(enqueued) + 1,
                     serializable |-> kind # "bytes",
                     dict |-> ExifUpdate(identifier, ExifDict(kind))])
              /\ LogCall("notify_exif", identifier, img, Len(enqueued) + 1)
         ELSE /\ LogCall("notify_exif", identifier, img, 0)
              /\ UNCHANGED <<pubVars, slept, payload>>
              /\ UNCHANGED imgVars

\* notify_retry (message.py:113-121)
NotifyRetry(identifier, attempts) ==
    /\ Len(calls) < MaxCalls
    /\ EnqueueMessage([identifier |-> Len(enqueued) + 1, serializable |-> TRUE,
                       dict |-> RetryNotice(identifier, "source", "url", attempts)])
    /\ LogCall("notify_retry", identifier, NoImage, Len(enqueued) + 1)

\* notify_404 (message.py:124-130)
Notify404(identifier) ==
    /\ Len(calls) < MaxCalls
    /\ EnqueueMessage([identifier |-> Len(enqueued) + 1, serializable |-> TRUE,
                       dict |-> LinkRotNotice(identifier)])
    /\ LogCall("notify_404", identifier, NoImage, Len(enqueued) + 1)

Init ==
    /\ messages = <<>>
    /\ lpc = "idle"
    /\ queue_size = 0
    /\ it = 0
    /\ msg = [utf8 |-> 0]
    /\ produce_attempts = 0
    /\ cycle = 0
    /\ snapshot = <<>>
    /\ enqueued = <<>>
    /\ produced = <<>>
    /\ slept = FALSE
    /\ payload = <<>>
    /\ calls = <<>>
    /\ sem = Permits
    /\ tpc = [t \in Tasks |-> "new"]
    /\ sink = [t \in Tasks |-> "None"]
    /\ resp = [t \in Tasks |-> NoResponse("pending")]
    /\ image = [t \in Tasks |-> "none"]
    /\ code = [t \in Tasks |-> NamedCode("none")]
    /\ errors = [t \in Tasks |-> <<>>]
    /\ successes = [t \in Tasks |-> 0]
    /\ steps = [t \in Tasks |-> <<>>]
    /\ notified = [t \in Tasks |-> <<>>]
    /\ persisted = [t \in Tasks |-> <<>>]
    /\ raised = [t \in Tasks |-> "none"]

Next ==
    \/ Enqueue
    \/ ListenStart
    \/ ListenTop
    \/ ListenFor
    \/ ListenWhile
    \/ ListenProduce
    \/ ListenBackoffWake
    \/ ListenClear
    \/ ListenWake
    \/ ListenRestart

\* The publisher: its callers and its listen() task.
Spec == Init /\ [][Next]_vars

NextImage ==
    \E t \in Tasks :
        \/ Call(t)
        \/ Acquire(t)
        \/ GetReturns(t)
        \/ RecordErrorReturns(t)
        \/ ReadReturns(t)
        \/ DecodeReturns(t)
        \/ ThumbnailReturns(t)
        \/ PersistReturns(t)
        \/ RecordSuccessReturns(t)

\* The pipeline: NumTasks concurrent process_image invocations.
SpecImage == Init /\ [][NextImage]_vars

NextCodec ==
    \/ \E id \in Tasks, img \in ImageSizes, nbytes \in {1, 2},
          probe \in ProbeOutcomes : NotifyQuality(id, img, nbytes, probe)
    \/ \E id \in Tasks, img \in ImageSizes, kind \in ExifKinds :
          NotifyExif(id, img, kind)
    \/ \E id \in Tasks, attempts \in {1, 2} : NotifyRetry(id, attempts)
    \/ \E id \in Tasks : Notify404(id)

\* The notify_* functions of message.py, called on one AsyncProducer.
SpecCodec == Init /\ [][NextCodec]_vars

\* ------------------------------------------------- publisher: properties
\* s is an initial segment of q.
IsPrefix(s, q) == Len(s) <= Len(q) /\ SubSeq(q, 1, Len(s)) = s

\* The produce calls made in flush cycle c, in call order.
ProducedIn(c) == SelectSeq(produced, LAMBDA p : p.cycle = c)

\* The identifiers carried by a sequence of produce calls.
IdsOf(pcalls) == [i \in 1..Len(pcalls) |-> pcalls[i].msg.utf8]

\* The identifiers of the events appended to the queue while `cycle` was c
\* (that is, after cycle c began and before cycle c+1 began).
AppendedAt(c) ==
    LET sel == SelectSeq(enqueued, LAMBDA e : e.appended /\ e.cycle = c)
    IN [i \in 1..Len(sel) |-> sel[i].id]

\* Flush cycle c ran to its end: listen() reached the clear, and no produce
\* call of the cycle raised anything other than BufferError.
CycleDone(c) ==
    /\ c >= 1
    /\ \/ cycle > c
       \/ cycle = c /\ lpc \in {"clear", "sleep", "top"}
    /\ \A i \in 1..Len(produced) :
          produced[i].cycle = c => produced[i].result # "Error"

\* listen() has moved on from the produce call number i: it is not suspended
\* in the back-off sleep that follows it, nor about to call produce again for
\* the event of that call.
MovedOn(i) ==
    \/ i < Len(produced)
    \/ i = Len(produced) /\ lpc \notin {"backoff", "while", "produce"}

\* C1 (as claimed): a produce call that raised BufferError below the attempt
\* bound is followed, after the back-off sleep, by another produce call for the
\* same event in the same cycle; and within a cycle events are handed to the
\* client in enqueue order.
C1_BackpressureRetry ==
    /\ \A i \in 1..Len(produced) :
          (produced[i].result = "BufferError"
             /\ produced[i].attempt < MaxAttempts /\ MovedOn(i))
          => /\ i < Len(produced)
             /\ produced[i + 1].msg = produced[i].msg
             /\ produced[i + 1].cycle = produced[i].cycle
    /\ \A i, j \in 1..Len(produced) :
          (i < j /\ produced[i].cycle = produced[j].cycle)
          => produced[i].msg.utf8 <= produced[j].msg.utf8

\* C2 (as claimed): while a flush cycle is in progress the queue holds nothing
\* of the batch being flushed (only events enqueued during this flush), and an
\* event enqueued during a flush is handed to the client only in a later cycle.
C2_SnapshotAndClear ==
    /\ InFlush =>
          \A k \in 1..Len(messages) :
             \E e \in 1..Len(enqueued) :
                /\ enqueued[e].id = messages[k].utf8
                /\ enqueued[e].inflush
                /\ enqueued[e].cycle = cycle
    /\ \A e \in 1..Len(enqueued) : \A p \in 1..Len(produced) :
          (enqueued[e].inflush /\ produced[p].msg.utf8 = enqueued[e].id)
          => produced[p].cycle > enqueued[e].cycle

\* C2 (amended): the queue is cleared only at the end of the flush cycle: while
\* a cycle is in progress the queue still holds the whole batch, followed by
\* the events enqueued during the cycle; and an event enqueued during a
\* back-off sleep of a cycle that runs to its end is handed to the client
\* exactly once, in that same cycle, and is gone from the queue afterwards.
C2_ClearAtEnd ==
    /\ InFlush =>
          /\ Len(messages) >= Len(snapshot)
          /\ SubSeq(messages, 1, Len(snapshot)) = snapshot
          /\ Len(snapshot) > 0
    /\ \A e \in 1..Len(enqueued) :
          (enqueued[e].inflush /\ enqueued[e].appended
             /\ CycleDone(enqueued[e].cycle))
          => /\ Cardinality({p \in 1..Len(produced) :
                    produced[p].msg.utf8 = enqueued[e].id}) = 1
             /\ \A p \in 1..Len(produced) :
                   produced[p].msg.utf8 = enqueued[e].id
                   => produced[p].cycle = enqueued[e].cycle
             /\ (lpc # "clear" =>
                   \A k \in 1..Len(messages) : messages[k].utf8 # enqueued[e].id)

\* An event was enqueued during a back-off sleep of a cycle, the cycle ran to
\* its end and the queue was cleared.
C2_Witness ==
    \E e \in 1..Len(enqueued) :
       /\ enqueued[e].inflush /\ enqueued[e].appended
       /\ CycleDone(enqueued[e].cycle)
       /\ lpc = "sleep"

\* C3: every event that enqueue_message appended is either still in the queue
\* or has been handed to the client's produce at least once.
C3_NoEventLost ==
    \A e \in 1..Len(enqueued) :
       enqueued[e].appended =>
          \/ \E k \in 1..Len(messages) : messages[k].utf8 = enqueued[e].id
          \/ \E p \in 1..Len(produced) : produced[p].msg.utf8 = enqueued[e].id

\* An event enqueued during a back-off sleep has left the queue.
C3_Witness ==
    \E e \in 1..Len(enqueued) :
       /\ enqueued[e].inflush /\ enqueued[e].appended
       /\ \A k \in 1..Len(messages) : messages[k].utf8 # enqueued[e].id
       /\ \A i \in 1..Len(produced) : produced[i].result # "Error"

\* C4: with a client that accepts every event, each flush cycle that ran to
\* its end handed to the client exactly the events enqueued before it began
\* (since the previous cycle began), each once, in enqueue order.
AllAccepted == \A i \in 1..Len(produced) : produced[i].result = "ok"

C4_BatchOrder ==
    AllAccepted =>
       \A c \in 1..cycle :
          CycleDone(c) => IdsOf(ProducedIn(c)) = AppendedAt(c - 1)

\* Two or more events were enqueued, one flush cycle ran to its end and the
\* client accepted every event.
C4_Witness ==
    /\ AllAccepted
    /\ cycle = 1 /\ lpc = "sleep"
    /\ Len(ProducedIn(1)) >= 2

\* C5 (as claimed): an event that listen() gives up on (its last produce call
\* raised BufferError and the loop moved on) has had MaxAttempts produce calls
\* in that cycle.
C5_AbandonedAfterMaxAttempts ==
    \A i \in 1..Len(produced) :
       (/\ produced[i].result = "BufferError"
        /\ MovedOn(i)
        /\ (i < Len(produced) =>
               \/ produced[i + 1].msg # produced[i].msg
               \/ produced[i + 1].cycle # produced[i].cycle))
       => Cardinality({j \in 1..Len(produced) :
              /\ produced[j].msg = produced[i].msg
              /\ produced[j].cycle = produced[i].cycle}) = MaxAttempts

\* -------------------------------------------------- pipeline: properties
\* The enqueue_message calls that appended an event carrying identifier t.
EnqueuedFor(t) ==
    {e \in 1..Len(enqueued) :
        /\ enqueued[e].appended
        /\ "identifier" \in DOMAIN payload[e]
        /\ payload[e].identifier = t}

\* C6: the invocations holding a permit and the free permits always add up to
\* Permits, so at most Permits invocations are in flight; an invocation that
\* waits for a permit has done no work and is still there (neither returned
\* nor raised); once every invocation has exited, by return or by exception,
\* the semaphore holds Permits again.
C6_PermitAccounting ==
    /\ sem \in 0..Permits
    /\ sem + Cardinality({t \in Tasks : InFlight(t)}) = Permits
    /\ Cardinality({t \in Tasks : InFlight(t)}) <= Permits
    /\ \A t \in Tasks :
          tpc[t] \in {"new", "acquire"} =>
             /\ steps[t] = <<>> /\ errors[t] = <<>> /\ successes[t] = 0
             /\ raised[t] = "none"
    /\ \A t \in Tasks : tpc[t] = "acquire" => sem = 0 \/ ENABLED Acquire(t)
    /\ (\A t \in Tasks : Exited(t)) => sem = Permits

\* Every permit is out and an invocation waits for one while the holders are
\* at work.
C6_Witness ==
    /\ sem = 0
    /\ \E t \in Tasks : tpc[t] = "acquire"
    /\ Cardinality({t \in Tasks : InFlight(t)}) = Permits

\* The fetch of invocation t did not give a response with a status below 400.
FetchFailed(t) ==
    \/ resp[t].kind \in {"NoToken", "ServerDisconnectedError", "ClientError"}
    \/ resp[t].kind = "response" /\ resp[t].status >= 400

\* C7 (as claimed): every invocation whose fetch failed, in whatever way, ends
\* by returning, with exactly one error code recorded.
C7_FetchFailuresNeverSurface ==
    \A t \in Tasks :
       (FetchFailed(t) /\ Exited(t)) =>
          /\ tpc[t] = "done"
          /\ raised[t] = "none"
          /\ Len(errors[t]) = 1

\* C7 (amended): for a rate-limit denial, an HTTP status >= 400 and a
\* ServerDisconnectedError, the invocation records exactly one error code
\* (NoRateToken, the status, ServerDisconnected) and returns; any other
\* exception of session.get is raised to the caller, with no code recorded.
C7_FetchFailuresHandled ==
    \A t \in Tasks :
       Exited(t) =>
          /\ resp[t].kind = "NoToken" =>
                /\ tpc[t] = "done" /\ raised[t] = "none"
                /\ errors[t] = <<NamedCode("NoRateToken")>>
          /\ resp[t].kind = "ServerDisconnectedError" =>
                /\ tpc[t] = "done" /\ raised[t] = "none"
                /\ errors[t] = <<NamedCode("ServerDisconnected")>>
          /\ (resp[t].kind = "response" /\ resp[t].status >= 400) =>
                /\ tpc[t] = "done" /\ raised[t] = "none"
                /\ errors[t] = <<StatusCode(resp[t].status)>>
          /\ resp[t].kind = "ClientError" =>
                /\ tpc[t] = "raised" /\ raised[t] = "ClientError"
                /\ errors[t] = <<>>

\* One invocation returned after a ServerDisconnectedError, another ended
\* with the exception its fetch raised.
C7_Witness ==
    \E t, u \in Tasks :
       /\ tpc[t] = "done" /\ resp[t].kind = "ServerDisconnectedError"
       /\ tpc[u] = "raised" /\ resp[u].kind = "ClientError"

C9_LinkRotNotice ==
    \A t \in Tasks :
       (tpc[t] = "done" /\ resp[t] = Response(404)) =>
          Cardinality(EnqueuedFor(t)) = 1

\* C10: an invocation whose image does not decode records
\* UnidentifiedImageError as its one error code and returns without raising;
\* it makes no call on the metadata sink, whatever sink it was given, enqueues
\* nothing, and performs no thumbnail or persist step.
C10_CorruptImage ==
    \A t \in Tasks :
       image[t] = "corrupt" =>
          /\ tpc[t] \in {"record_error", "done"}
          /\ raised[t] = "none"
          /\ notified[t] = <<>>
          /\ EnqueuedFor(t) = {}
          /\ steps[t] = <<"fetch", "read", "decode">>
          /\ successes[t] = 0
          /\ code[t] = NamedCode("UnidentifiedImageError")
          /\ errors[t] = IF tpc[t] = "done"
                           THEN <<NamedCode("UnidentifiedImageError")>> ELSE <<>>

\* An invocation given a metadata sink has returned after a corrupt image.
C10_Witness ==
    \E t \in Tasks :
       /\ image[t] = "corrupt" /\ sink[t] = "Notifier" /\ tpc[t] = "done"

\* The image of invocation t decoded.
Decoded(t) == image[t] \in {"plain", "exif"}

\* C11 (as claimed): an invocation given an AsyncProducer as metadata sink,
\* and whose image decodes, appends one QualityUpdate to the sink's queue, and
\* one ExifUpdate after it exactly when the image has EXIF tags; it does not
\* raise, and goes on to the thumbnail.
C11_MetadataEmission ==
    \A t \in Tasks :
       (sink[t] = "AsyncProducer" /\ Decoded(t)) =>
          /\ Cardinality(EnqueuedFor(t)) = IF image[t] = "exif" THEN 2 ELSE 1
          /\ raised[t] \notin {"AttributeError"}
          /\ tpc[t] \in {"thumbnail", "persist", "record_success", "done",
                         "raised"}

\* The steps of an invocation that runs to record_success, for its sink.
FullOrder(kind) ==
    <<"fetch", "read", "decode">>
      \o (IF SinkConfigured(kind) THEN NotifySteps(kind) ELSE <<>>)
      \o <<"thumbnail", "persist">>

\* C12: an invocation whose persister returned normally, or that returned
\* after a decoded image, called the persister exactly once, with its own
\* identifier, after fetch, read, decode and thumbnail; it records no error
\* code, does not raise, records success exactly once (after the persister
\* returned), and without a metadata sink makes no notification and enqueues
\* nothing.
C12_SuccessAccounting ==
    \A t \in Tasks :
       (\/ tpc[t] = "done" /\ Decoded(t)
        \/ tpc[t] = "record_success"
        \/ \E i \in 1..Len(persisted[t]) : persisted[t][i].returned) =>
          /\ persisted[t] = <<[identifier |-> Identifier(t), returned |-> TRUE]>>
          /\ steps[t] = FullOrder(sink[t])
          /\ tpc[t] \in {"record_success", "done"}
          /\ successes[t] = IF tpc[t] = "done" THEN 1 ELSE 0
          /\ errors[t] = <<>>
          /\ code[t] = NamedCode("none")
          /\ raised[t] = "none"
          /\ sink[t] = "None" => (notified[t] = <<>> /\ EnqueuedFor(t) = {})

\* An invocation without a metadata sink has returned after record_success,
\* and one with a sink has too.
C12_Witness ==
    \E t, u \in Tasks :
       /\ tpc[t] = "done" /\ successes[t] = 1 /\ sink[t] = "None"
       /\ tpc[u] = "done" /\ successes[u] = 1 /\ sink[u] = "Notifier"

\* C13: an invocation whose persister raised ends with that exception; it
\* records neither success nor an error code.
C13_PersistFailurePropagates ==
    \A t \in Tasks :
       (\E i \in 1..Len(persisted[t]) : ~persisted[t][i].returned) =>
          /\ tpc[t] = "raised"
          /\ raised[t] = "PersisterError"
          /\ successes[t] = 0
          /\ errors[t] = <<>>
          /\ code[t] = NamedCode("none")
          /\ Len(persisted[t]) = 1

\* The persister of an invocation has raised.
C13_Witness ==
    \E t \in Tasks :
       /\ raised[t] = "PersisterError"
       /\ persisted[t] = <<[identifier |-> Identifier(t), returned |-> FALSE]>>

\* C16: the steps of an invocation are an initial segment of fetch, read,
\* decode, the notifications (when a sink is given), thumbnail, persist, and
\* success is recorded only after all of them; the notifications made on the
\* sink are complete, and computed from the decoded image, before the
\* thumbnail step starts, and are not changed by it.
C16_StepOrder ==
    \A t \in Tasks :
       /\ IsPrefix(steps[t], FullOrder(sink[t]))
       /\ tpc[t] = "record_success" \/ successes[t] > 0 =>
             steps[t] = FullOrder(sink[t])
       /\ tpc[t] \in {"thumbnail", "persist", "record_success"} =>
             /\ Decoded(t)
             /\ notified[t] = NotifyCalls(sink[t], image[t] = "exif")
       /\ notified[t] # <<>> => Decoded(t)

\* An invocation with a sink has made its notifications and finished the
\* thumbnail step.
C16_Witness ==
    \E t \in Tasks :
       /\ sink[t] = "Notifier" /\ image[t] = "exif"
       /\ tpc[t] = "persist"
       /\ Len(notified[t]) = 2

\* ------------------------------------------- publisher: further properties
\* C14: a call of enqueue_message, in whatever state of listen() it is made,
\* returns without raising; for a serializable event it appends the serialized
\* event at the tail of the queue, for a non-serializable one it leaves the
\* queue as it was; it changes nothing else of the publisher.
C14_EnqueueFrame ==
    [][Len(enqueued') = Len(enqueued) + 1 =>
          LET e == enqueued'[Len(enqueued')] IN
          /\ e.raised = "none"
          /\ messages' = IF e.serializable
                           THEN Append(messages, [utf8 |-> e.id])
                           ELSE messages
          /\ UNCHANGED <<lpc, queue_size, it, msg, produce_attempts, cycle,
                         snapshot, produced, slept>>]_vars

\* A serializable event was enqueued during a back-off sleep of a flush, and
\* a non-serializable one was dropped.
C14_Witness ==
    \E e, f \in 1..Len(enqueued) :
       /\ enqueued[e].inflush /\ enqueued[e].serializable /\ enqueued[e].appended
       /\ ~enqueued[f].serializable /\ ~enqueued[f].appended

\* C17 (as claimed): listen() hands an event to the client only after an
\* interval sleep has ended since the loop was started.
C17_SleepBeforeDrain == lpc = "produce" => slept

\* C17 (amended): in every cycle, the first included, the queue is drained
\* before the interval sleep: while listen() is in its interval sleep the
\* queue holds only events enqueued during that sleep, and once an interval
\* sleep has ended every event queued before listen() was started has been
\* handed to the client.
C17_DrainBeforeSleep ==
    /\ lpc = "sleep" =>
          \A k \in 1..Len(messages) :
             \E e \in 1..Len(enqueued) :
                /\ enqueued[e].id = messages[k].utf8
                /\ enqueued[e].at = "sleep"
    /\ slept =>
          \A e \in 1..Len(enqueued) :
             (enqueued[e].appended /\ enqueued[e].at = "idle") =>
                \E p \in 1..Len(produced) : produced[p].msg.utf8 = enqueued[e].id

\* An event queued before listen() was started has been handed to the client
\* and no interval sleep has ended yet.
C17_Witness ==
    /\ ~slept
    /\ lpc = "sleep"
    /\ \E e \in 1..Len(enqueued) : \E p \in 1..Len(produced) :
          /\ enqueued[e].appended /\ enqueued[e].at = "idle"
          /\ produced[p].msg.utf8 = enqueued[e].id

\* The identifiers of all events appended to the queue, in enqueue order.
AllAppended ==
    LET sel == SelectSeq(enqueued, LAMBDA e : e.appended)
    IN [i \in 1..Len(sel) |-> sel[i].id]

\* listen() was started again after produce raised something other than
\* BufferError.
Restarted ==
    \E i \in 1..Len(produced) :
       /\ produced[i].result = "Error"
       /\ i < Len(produced) \/ lpc # "crashed"

\* C19: as long as listen() was not restarted, the events on which produce
\* was called are, in call order, an initial segment of the events appended
\* to the queue, in enqueue order; so no event is handed over twice, in the
\* same or in another cycle, and the cycles of the calls never decrease.
C19_GlobalFifo ==
    ~Restarted =>
       /\ IsPrefix(IdsOf(produced), AllAppended)
       /\ \A i, j \in 1..Len(produced) :
             i < j => produced[i].cycle <= produced[j].cycle

\* Events were enqueued before, during and after a flush cycle, and all were
\* handed to the client, in two cycles.
C19_Witness ==
    /\ ~Restarted
    /\ Len(produced) = MaxEnqueue
    /\ \E e \in 1..Len(enqueued) : enqueued[e].inflush
    /\ \E p \in 1..Len(produced) : produced[p].cycle = 2

\* Flush cycle c was ended by an exception of produce other than BufferError.
CycleCrashed(c) ==
    \E i \in 1..Len(produced) :
       produced[i].cycle = c /\ produced[i].result = "Error"

\* C20: when produce raises something other than BufferError, listen() ends
\* and the queue still holds the whole batch, the events handed over earlier
\* in the cycle included; and the cycle that follows a restart of listen()
\* hands every event of the ended cycle to the client again.
C20_FatalErrorKeepsBatch ==
    /\ lpc = "crashed" =>
          /\ IsPrefix(snapshot, messages)
          /\ produced[Len(produced)].result = "Error"
          /\ \A p \in 1..Len(produced) :
                produced[p].cycle = cycle =>
                   \E k \in 1..Len(messages) : messages[k] = produced[p].msg
    /\ \A c \in 1..cycle :
          (CycleCrashed(c) /\ CycleDone(c + 1)) =>
             \A p \in 1..Len(produced) :
                produced[p].cycle = c =>
                   \E q \in 1..Len(produced) :
                      /\ produced[q].cycle = c + 1
                      /\ produced[q].msg = produced[p].msg

\* An event was accepted by the client, a later event of the batch made
\* produce raise, listen() was restarted and the client accepted the first
\* event a second time.
C20_Witness ==
    \E p, q \in 1..Len(produced) :
       /\ produced[p].result = "ok" /\ produced[q].result = "ok"
       /\ produced[p].msg = produced[q].msg
       /\ produced[q].cycle = produced[p].cycle + 1
       /\ CycleCrashed(produced[p].cycle)

\* ---------------------------------------------- notify_*: properties
\* The calls of the notify_* functions that put an event in the queue.
Emitted == {c \in 1..Len(calls) : calls[c].enq > 0 /\ enqueued[calls[c].enq].appended}

\* The dict enqueued by call c carries the identifier of the call under key k.
CarriesIdentifier(c, k) ==
    /\ k \in DOMAIN payload[calls[c].enq]
    /\ payload[calls[c].enq][k] = calls[c].identifier

\* C15 (as claimed): every event a notify_* function puts in the queue has a
\* field `identifier` that holds the identifier the function was given.
C15_EveryEventCarriesIdentifier ==
    \A c \in Emitted : CarriesIdentifier(c, "identifier")

\* C15 (amended): the events of notify_quality, notify_exif and notify_404
\* have a field `identifier` holding the identifier given; the event of
\* notify_retry holds it in a field `uuid` and has no field `identifier`.
C15_IdentifierOrUuid ==
    \A c \in Emitted :
       IF calls[c].fn = "notify_retry"
         THEN /\ CarriesIdentifier(c, "uuid")
              /\ "identifier" \notin DOMAIN payload[calls[c].enq]
         ELSE CarriesIdentifier(c, "identifier")

\* A notify_404 event and a notify_retry event are in the queue.
C15_Witness ==
    \E c, d \in Emitted :
       calls[c].fn = "notify_404" /\ calls[d].fn = "notify_retry"

\* C18 (as claimed): the `height` field of a notify_quality event is the
\* pixel height of the image, and its `width` field the pixel width.
C18_DimensionFields ==
    \A c \in Emitted :
       calls[c].fn = "notify_quality" =>
          /\ payload[calls[c].enq].height = calls[c].height
          /\ payload[calls[c].enq].width = calls[c].width

====
